---- MODULE Spec2Model ----
(***************************************************************************)
(* The camera controller of src/js/cameraController.js as a state machine: *)
(* the module-level state (camera, isFlying, the mouse and touch drag      *)
(* bookkeeping), the DOM state it writes (inline transform and transition, *)
(* the is-target / is-flying classes), the pending navigation timers and   *)
(* the page location.  One action per event listener and one for the timer *)
(* callback.  JavaScript numbers are modelled as exact rationals <<n, d>>. *)
(* Around it, the page's other state: the pageshow listener of main.js,    *)
(* the favourites and the planet cache kept in localStorage (utils.mjs,    *)
(* dataStuff.mjs) and the favourite toggle button of cardBuilder.mjs.      *)
(***************************************************************************)
EXTENDS Integers, Sequences, FiniteSets, TLC

VARIABLES
    solarWorld,         \* document.getElementById("solar-system") found an element
    solsystemContainer, \* document.getElementById("solsystem-container") found one
    camera,             \* [x, y, scale], each a rational
    isFlying,
    isDragging, lastX, lastY,
    isTouchDragging, lastTouchX, lastTouchY, lastPinchDistance,
    touchCount,         \* the number of contacts currently down (e.touches.length)
    transform,          \* solarWorld.style.transform: <<>> or the pieces of the string
    transition,         \* solarWorld.style.transition
    isTarget,           \* the markers carrying the class "is-target"
    worldIsFlying,      \* solarWorld.classList has "is-flying"
    containerIsFlying,  \* solsystemContainer.classList has "is-flying"
    timers,             \* the setTimeout callbacks scheduled so far
    href,               \* window.location.href: "" is the map page itself
    console,            \* the messages written with console.warn
    effects,            \* the writes of focusOnPlanet and of its timer callback,
                        \* in the order the statements ran
    pageshowEvent,      \* the pageshow event waiting to be dispatched: <<>> or
                        \* <<persisted>>
    localStorage,       \* key -> <<>> (no item) or <<value>> (the parsed JSON value)
    calls,              \* the getPlanetData calls made so far, each a record
    favoriteButton,     \* the favourite toggle button: <<>> or <<its state>>
    returned            \* what the last toggleFavoriteByKey call returned: <<>>
                        \* or <<boolean>>

vars == <<solarWorld, solsystemContainer, camera, isFlying, isDragging, lastX, lastY, isTouchDragging,
          lastTouchX, lastTouchY, lastPinchDistance, touchCount, transform,
          transition, isTarget, worldIsFlying, containerIsFlying, timers, href,
          console, effects, pageshowEvent, localStorage, calls, favoriteButton, returned>>

mouseVars == <<isDragging, lastX, lastY>>
touchVars == <<isTouchDragging, lastTouchX, lastTouchY, lastPinchDistance>>
domVars   == <<transform, transition, isTarget, worldIsFlying, containerIsFlying>>
navVars   == <<timers, href>>
elemVars  == <<solarWorld, solsystemContainer, console>>
appVars   == <<pageshowEvent, localStorage, calls, favoriteButton, returned>>

----------------------------------------------------------------------------
(* JavaScript number arithmetic, exact: a number is <<numerator, denominator>> *)
(* in lowest terms with a positive denominator.                               *)

Abs(i) == IF i < 0 THEN -i ELSE i

RECURSIVE GCD(_, _)
GCD(a, b) == IF b = 0 THEN a ELSE GCD(b, a % b)

Norm(n, d) ==
    LET s == IF d < 0 THEN -1 ELSE 1
        g == GCD(Abs(n), Abs(d))
    IN  <<(s * n) \div g, (s * d) \div g>>

Num(i) == <<i, 1>>

Plus(a, b)  == Norm(a[1] * b[2] + b[1] * a[2], a[2] * b[2])
Neg(a)      == <<-a[1], a[2]>>
Minus(a, b) == Plus(a, Neg(b))
Times(a, b) == Norm(a[1] * b[1], a[2] * b[2])
Over(a, b)  == Norm(a[1] * b[2], a[2] * b[1])
LessEq(a, b) == a[1] * b[2] <= b[1] * a[2]

MathMax(a, b) == IF LessEq(a, b) THEN b ELSE a
MathMin(a, b) == IF LessEq(a, b) THEN a ELSE b

----------------------------------------------------------------------------
(* Constants of the controller.                                             *)

\* a lower bound of zero
MIN_SCALE_zero == Num(0)

MIN_SCALE == Norm(1, 10)
MAX_SCALE == Num(3)
FLY_IN_SCALE == Num(10)
FLY_IN_VERTICAL_OFFSET == Num(120)
\* the wheel factor with its sign lost
WHEEL_FACTOR_positive == Norm(1, 1000)

WHEEL_FACTOR == Norm(-1, 1000)
PINCH_FACTOR == Norm(2, 1000)
NAV_DELAY == 1150

camera0 == [x |-> Num(-1500), y |-> Num(-1500), scale |-> Num(1)]

----------------------------------------------------------------------------
(* Bounds of the model and the inputs the events are drawn from.            *)

MaxPan == 1500      \* pans keep each offset within [initial, initial + MaxPan]
MaxTouches == 3     \* simultaneous contacts
MaxClicks == 3      \* clicks counted on one favourite toggle button
MaxCalls == 2       \* getPlanetData calls made on one page

MousePoints == {<<0, 0>>, <<1500, 1500>>}
TouchPoints == {<<0, 0>>, <<500, 1000>>, <<1500, 1500>>}
PinchPairs  == { << <<0, 0>>, <<600, 800>> >>, << <<0, 0>>, <<1200, 1600>> >> }
WheelDeltas == {-2000, 2000}
Buttons     == {0, 2}

\* e.touches of a touch event: no contact, one, a pinch pair, or more
TouchConfigs ==
    {<<>>} \cup { <<p>> : p \in TouchPoints } \cup PinchPairs
           \cup { [i \in 1..n |-> <<100 * i, 0>>] : n \in 3..MaxTouches }

Markers      == {"earth", "mars", "nameless"}
DataName(m)  == IF m = "nameless" THEN "" ELSE m

\* getBoundingClientRect() of the container and the layout size of the world
ContainerRect == [left |-> 0, top |-> 0, width |-> 800, height |-> 600]
WorldSize     == [offsetWidth |-> 3000, offsetHeight |-> 3000]

\* a click: the marker closest(".planet") finds ("space" when it finds none)
\* and that element's getBoundingClientRect()
RectA == [left |-> 380, top |-> 280, width |-> 40, height |-> 40]
RectB == [left |-> 100, top |-> 450, width |-> 25, height |-> 25]
Clicks == { <<"earth", RectA>>, <<"mars", RectB>>, <<"nameless", RectA>>,
            <<"space", RectB>> }

InPanBox(c) ==
    /\ LessEq(camera0.x, c.x) /\ LessEq(c.x, Plus(camera0.x, Num(MaxPan)))
    /\ LessEq(camera0.y, c.y) /\ LessEq(c.y, Plus(camera0.y, Num(MaxPan)))

----------------------------------------------------------------------------
(* Helper functions of the controller.                                      *)

\* Math.hypot on the inputs of the model, all of which have an integer result
MathHypot(dx, dy) ==
    CHOOSE d \in 0..(Abs(dx) + Abs(dy)) : d * d = dx * dx + dy * dy

getTouchDistance(t1, t2) == MathHypot(t1[1] - t2[1], t1[2] - t2[2])

\* the clamp with its lower bound forgotten
clampScale_noMin(s) == MathMin(s, MAX_SCALE)

\* the clamp with its upper bound forgotten
clampScale_noMax(s) == MathMax(MIN_SCALE, s)

clampScale(s) == MathMin(MathMax(MIN_SCALE, s), MAX_SCALE)

\* the scale a wheel event of deltaY assigns
wheelZoom(scale, deltaY) ==
    LET zoomAmount == Times(Num(deltaY), WHEEL_FACTOR)
    IN  clampScale(Plus(scale, zoomAmount))

\* the scale a two-contact touchmove assigns when a pinch distance is recorded
pinchZoom(scale, lastDistance, currentDistance) ==
    LET zoomDelta == Times(Num(currentDistance - lastDistance), PINCH_FACTOR)
    IN  clampScale(Plus(scale, zoomDelta))

\* translate(${camera.x}px, ${camera.y}px) scale(${camera.scale})
transformString(c) == <<"translate(", c.x, "px, ", c.y, "px) scale(", c.scale, ")">>

\* updateCamera with its guard inverted: it returns when the world is there
updateCamera_guardInverted(c) ==
    transform' = IF solarWorld THEN transform ELSE transformString(c)

\* updateCamera run before the assignment: it writes the camera as it was
updateCamera_stale(c) ==
    transform' = IF solarWorld THEN transformString(camera) ELSE transform

\* updateCamera(), called with the camera value just assigned
updateCamera(c) ==
    transform' = IF solarWorld THEN transformString(c) ELSE transform

\* the centre of a rectangle, as focusOnPlanet computes it
CentreX(rect) == Plus(Num(rect.left), Over(Num(rect.width), Num(2)))
CentreY(rect) == Plus(Num(rect.top), Over(Num(rect.height), Num(2)))
OriginX == Over(Num(WorldSize.offsetWidth), Num(2))
OriginY == Over(Num(WorldSize.offsetHeight), Num(2))

\* the inverse dividing by the target scale instead of the current one
planetWorld_targetScale(screen, base, offset, origin, currentScale) ==
    Plus(origin, Over(Minus(Minus(Minus(screen, base), offset), origin), FLY_IN_SCALE))

\* the inverse with the offset added instead of subtracted
planetWorld_offsetSign(screen, base, offset, origin, currentScale) ==
    Plus(origin, Over(Minus(Plus(Minus(screen, base), offset), origin), currentScale))

\* planetWorldX / planetWorldY: the inverse of the current transform
planetWorld(screen, base, offset, origin, currentScale) ==
    Plus(origin, Over(Minus(Minus(Minus(screen, base), offset), origin), currentScale))

\* the offset without the origin term
flyInOffset_noOrigin(world, origin, targetScale) ==
    Neg(Times(targetScale, Minus(world, origin)))

\* the camera offset focusOnPlanet assigns for a world coordinate
flyInOffset(world, origin, targetScale) ==
    Neg(Plus(Times(targetScale, Minus(world, origin)), origin))

\* the URL with the identifier left out of the query
NavigationUrl_noName(planetName) == "planet-pages/planet.html?planet="

NavigationUrl(planetName) == "planet-pages/planet.html?planet=" \o planetName

alive == href = ""

----------------------------------------------------------------------------
(* The state after the script has run.                                      *)

\* the storage keys of the pages
RESOURCE_FAVORITES_KEY == "favoriteResources"
APOD_FAVORITES_KEY == "favoriteApods"
NINJA_PLANETS_STORAGE_KEY == "planetData"
StorageKeys == {RESOURCE_FAVORITES_KEY, APOD_FAVORITES_KEY, NINJA_PLANETS_STORAGE_KEY}

\* a first visit: nothing stored, no call made, no toggle button built
NoApp ==
    /\ localStorage = [k \in StorageKeys |-> <<>>]
    /\ calls = <<>>
    /\ favoriteButton = <<>>
    /\ returned = <<>>

\* no drag, no pinch, no flight, nothing written to the DOM classes, no timer
Idle ==
    /\ isFlying = FALSE
    /\ isDragging = FALSE /\ lastX = 0 /\ lastY = 0
    /\ isTouchDragging = FALSE /\ lastTouchX = 0 /\ lastTouchY = 0
    /\ lastPinchDistance = 0
    /\ touchCount = 0
    /\ transition = ""
    /\ isTarget = {}
    /\ worldIsFlying = FALSE
    /\ containerIsFlying = FALSE
    /\ timers = <<>>
    /\ href = ""
    /\ console = <<>>
    /\ effects = <<>>
    /\ pageshowEvent = <<>>
    /\ NoApp

Init ==
    /\ solarWorld \in BOOLEAN
    /\ solsystemContainer \in BOOLEAN
    /\ camera = camera0
    /\ transform = <<>>
    /\ Idle

\* the writes of focusOnPlanet with the transform written first
FocusEffects_transformFirst ==
    <<"transform", "is-target", "world.is-flying", "container.is-flying", "isFlying",
      "camera", "transition", "setTimeout">>

\* the writes of focusOnPlanet in the order of its statements: the three
\* classList.add calls, isFlying, the camera fields, style.transition,
\* updateCamera() and setTimeout
FocusEffects ==
    <<"is-target", "world.is-flying", "container.is-flying", "isFlying",
      "camera", "transition", "transform", "setTimeout">>

----------------------------------------------------------------------------
(* focusOnPlanet(planetEl), rect being planetEl.getBoundingClientRect().    *)

\* focusOnPlanet without the return on a missing or empty data-name
focusOnPlanet_noNameCheck(planetEl, rect) ==
    IF ~solarWorld \/ ~solsystemContainer THEN UNCHANGED vars
    ELSE LET planetName == DataName(planetEl) IN
    LET planetScreenX == CentreX(rect)
        planetScreenY == CentreY(rect)
        baseX == CentreX(ContainerRect)
        baseY == CentreY(ContainerRect)
        currentScale == camera.scale
        targetScale == FLY_IN_SCALE
        planetWorldX == planetWorld(planetScreenX, baseX, camera.x, OriginX, currentScale)
        planetWorldY == planetWorld(planetScreenY, baseY, camera.y, OriginY, currentScale)
        flown == [x |-> flyInOffset(planetWorldX, OriginX, targetScale),
                  y |-> Minus(flyInOffset(planetWorldY, OriginY, targetScale),
                              FLY_IN_VERTICAL_OFFSET),
                  scale |-> targetScale]
    IN  /\ isTarget' = isTarget \cup {planetEl}
        /\ worldIsFlying' = TRUE
        /\ containerIsFlying' = TRUE
        /\ isFlying' = TRUE
        /\ camera' = flown
        /\ transition' = "transform 3s cubic-bezier(0.2, 0.8, 0.2, 1)"
        /\ updateCamera(flown)
        /\ timers' = Append(timers, [planetName |-> planetName, delay |-> NAV_DELAY,
                                     planetWorldX |-> planetWorldX,
                                     planetWorldY |-> planetWorldY,
                                     currentScale |-> currentScale,
                                     planetScreenX |-> planetScreenX,
                                     planetScreenY |-> planetScreenY,
                                     fired |-> FALSE])
        /\ effects' = effects \o FocusEffects
        /\ UNCHANGED <<elemVars, appVars, mouseVars, touchVars, touchCount, href>>

\* focusOnPlanet without the assignment of the target scale
focusOnPlanet_keepsScale(planetEl, rect) ==
    IF ~solarWorld \/ ~solsystemContainer THEN UNCHANGED vars
    ELSE LET planetName == DataName(planetEl) IN
    IF planetName = "" THEN UNCHANGED vars
    ELSE
    LET planetScreenX == CentreX(rect)
        planetScreenY == CentreY(rect)
        baseX == CentreX(ContainerRect)
        baseY == CentreY(ContainerRect)
        currentScale == camera.scale
        targetScale == FLY_IN_SCALE
        planetWorldX == planetWorld(planetScreenX, baseX, camera.x, OriginX, currentScale)
        planetWorldY == planetWorld(planetScreenY, baseY, camera.y, OriginY, currentScale)
        flown == [x |-> flyInOffset(planetWorldX, OriginX, targetScale),
                  y |-> Minus(flyInOffset(planetWorldY, OriginY, targetScale),
                              FLY_IN_VERTICAL_OFFSET),
                  scale |-> currentScale]
    IN  /\ isTarget' = isTarget \cup {planetEl}
        /\ worldIsFlying' = TRUE
        /\ containerIsFlying' = TRUE
        /\ isFlying' = TRUE
        /\ camera' = flown
        /\ transition' = "transform 3s cubic-bezier(0.2, 0.8, 0.2, 1)"
        /\ updateCamera(flown)
        /\ timers' = Append(timers, [planetName |-> planetName, delay |-> NAV_DELAY,
                                     planetWorldX |-> planetWorldX,
                                     planetWorldY |-> planetWorldY,
                                     currentScale |-> currentScale,
                                     planetScreenX |-> planetScreenX,
                                     planetScreenY |-> planetScreenY,
                                     fired |-> FALSE])
        /\ effects' = effects \o FocusEffects
        /\ UNCHANGED <<elemVars, appVars, mouseVars, touchVars, touchCount, href>>

focusOnPlanet(planetEl, rect) ==
    IF ~solarWorld \/ ~solsystemContainer THEN UNCHANGED vars
    ELSE LET planetName == DataName(planetEl) IN
    IF planetName = "" THEN UNCHANGED vars
    ELSE
    LET planetScreenX == CentreX(rect)
        planetScreenY == CentreY(rect)
        baseX == CentreX(ContainerRect)
        baseY == CentreY(ContainerRect)
        currentScale == camera.scale
        targetScale == FLY_IN_SCALE
        planetWorldX == planetWorld(planetScreenX, baseX, camera.x, OriginX, currentScale)
        planetWorldY == planetWorld(planetScreenY, baseY, camera.y, OriginY, currentScale)
        flown == [x |-> flyInOffset(planetWorldX, OriginX, targetScale),
                  y |-> Minus(flyInOffset(planetWorldY, OriginY, targetScale),
                              FLY_IN_VERTICAL_OFFSET),
                  scale |-> targetScale]
    IN  /\ isTarget' = isTarget \cup {planetEl}
        /\ worldIsFlying' = TRUE
        /\ containerIsFlying' = TRUE
        /\ isFlying' = TRUE
        /\ camera' = flown
        /\ transition' = "transform 3s cubic-bezier(0.2, 0.8, 0.2, 1)"
        /\ updateCamera(flown)
        /\ timers' = Append(timers, [planetName |-> planetName, delay |-> NAV_DELAY,
                                     planetWorldX |-> planetWorldX,
                                     planetWorldY |-> planetWorldY,
                                     currentScale |-> currentScale,
                                     planetScreenX |-> planetScreenX,
                                     planetScreenY |-> planetScreenY,
                                     fired |-> FALSE])
        /\ effects' = effects \o FocusEffects
        /\ UNCHANGED <<elemVars, appVars, mouseVars, touchVars, touchCount, href>>

----------------------------------------------------------------------------
(* The event listeners.                                                     *)

\* the click listener taking a click outside every marker for one on a marker
click_anyTarget(target, rect) ==
    /\ alive /\ solarWorld
    /\ IF isFlying THEN UNCHANGED vars
       ELSE focusOnPlanet(IF target \in Markers THEN target ELSE "earth", rect)

\* the click listener without its isFlying check
click_noFlyingCheck(target, rect) ==
    /\ alive /\ solarWorld
    /\ IF target \notin Markers THEN UNCHANGED vars
       ELSE focusOnPlanet(target, rect)

\* solarWorld "click": target is the marker event.target.closest(".planet")
\* finds, or "space" when it finds none
click(target, rect) ==
    /\ alive /\ solarWorld
    /\ IF target \notin Markers THEN UNCHANGED vars
       ELSE IF isFlying THEN UNCHANGED vars
       ELSE focusOnPlanet(target, rect)

\* the mousedown listener without its check of the marker under the pointer
mousedown_noPlanetCheck(p, onPlanet, button) ==
    /\ alive /\ solsystemContainer
    /\ IF isFlying THEN UNCHANGED vars
       ELSE /\ isDragging' = TRUE
            /\ lastX' = p[1]
            /\ lastY' = p[2]
            /\ UNCHANGED <<elemVars, appVars, effects, camera, isFlying, touchVars, touchCount, domVars, navVars>>

\* solsystemContainer "mousedown"
mousedown(p, onPlanet, button) ==
    /\ alive /\ solsystemContainer
    /\ IF isFlying \/ onPlanet THEN UNCHANGED vars
       ELSE /\ isDragging' = TRUE
            /\ lastX' = p[1]
            /\ lastY' = p[2]
            /\ UNCHANGED <<elemVars, appVars, effects, camera, isFlying, touchVars, touchCount, domVars, navVars>>

\* a release that also ends the flight
mouseup_resetsFlying ==
    /\ alive
    /\ isDragging' = FALSE
    /\ isFlying' = FALSE
    /\ UNCHANGED <<elemVars, appVars, effects, camera, lastX, lastY, touchVars, touchCount, domVars, navVars>>

\* a release that also clears the pending navigation timers
mouseup_clearsTimers ==
    /\ alive
    /\ isDragging' = FALSE
    /\ timers' = <<>>
    /\ UNCHANGED <<elemVars, appVars, effects, camera, isFlying, lastX, lastY, touchVars, touchCount,
                   domVars, href>>

\* window "mouseup"
mouseup ==
    /\ alive
    /\ isDragging' = FALSE
    /\ UNCHANGED <<elemVars, appVars, effects, camera, isFlying, lastX, lastY, touchVars, touchCount,
                   domVars, navVars>>

\* the mousemove listener without the update of lastX / lastY
mousemove_staleLast(p) ==
    /\ alive
    /\ IF ~isDragging \/ isFlying THEN UNCHANGED vars
       ELSE LET moved == [camera EXCEPT !.x = Plus(@, Num(p[1] - lastX)),
                                        !.y = Plus(@, Num(p[2] - lastY))]
            IN  /\ InPanBox(moved)
                /\ camera' = moved
                /\ updateCamera(moved)
                /\ UNCHANGED <<elemVars, appVars, effects, isFlying, mouseVars, touchVars, touchCount,
                               transition, isTarget, worldIsFlying, containerIsFlying,
                               navVars>>

\* window "mousemove"
mousemove(p) ==
    /\ alive
    /\ IF ~isDragging \/ isFlying THEN UNCHANGED vars
       ELSE LET moved == [camera EXCEPT !.x = Plus(@, Num(p[1] - lastX)),
                                        !.y = Plus(@, Num(p[2] - lastY))]
            IN  /\ InPanBox(moved)
                /\ camera' = moved
                /\ lastX' = p[1]
                /\ lastY' = p[2]
                /\ updateCamera(moved)
                /\ UNCHANGED <<elemVars, appVars, effects, isFlying, isDragging, touchVars, touchCount,
                               transition, isTarget, worldIsFlying, containerIsFlying,
                               navVars>>

\* the wheel listener zooming about the world origin: it also moves the offsets
wheel_movesOffsets(deltaY) ==
    /\ alive /\ solsystemContainer
    /\ IF isFlying THEN UNCHANGED vars
       ELSE LET scaled == wheelZoom(camera.scale, deltaY)
                zoomed == [x |-> Times(camera.x, Over(scaled, camera.scale)),
                           y |-> Times(camera.y, Over(scaled, camera.scale)),
                           scale |-> scaled]
            IN  /\ camera' = zoomed
                /\ updateCamera(zoomed)
                /\ UNCHANGED <<elemVars, appVars, effects, isFlying, mouseVars, touchVars, touchCount,
                               transition, isTarget, worldIsFlying, containerIsFlying,
                               navVars>>

\* the wheel listener without its isFlying check
wheel_noFlyingCheck(deltaY) ==
    /\ alive /\ solsystemContainer
    /\ LET zoomed == [camera EXCEPT !.scale = wheelZoom(@, deltaY)]
       IN  /\ camera' = zoomed
           /\ updateCamera(zoomed)
           /\ UNCHANGED <<elemVars, appVars, effects, isFlying, mouseVars, touchVars, touchCount,
                          transition, isTarget, worldIsFlying, containerIsFlying,
                          navVars>>

\* solsystemContainer "wheel"
wheel(deltaY) ==
    /\ alive /\ solsystemContainer
    /\ IF isFlying THEN UNCHANGED vars
       ELSE LET zoomed == [camera EXCEPT !.scale = wheelZoom(@, deltaY)]
            IN  /\ camera' = zoomed
                /\ updateCamera(zoomed)
                /\ UNCHANGED <<elemVars, appVars, effects, isFlying, mouseVars, touchVars, touchCount,
                               transition, isTarget, worldIsFlying, containerIsFlying,
                               navVars>>

\* solsystemContainer "touchstart": cfg is e.touches, with the new contacts;
\* onPlanet is e.target.closest(".planet")
touchstart(cfg, onPlanet) ==
    /\ alive
    /\ Len(cfg) > touchCount
    /\ touchCount' = Len(cfg)
    /\ IF ~solsystemContainer \/ isFlying \/ onPlanet
       THEN UNCHANGED <<elemVars, appVars, effects, camera, isFlying, mouseVars, touchVars, domVars, navVars>>
       ELSE IF Len(cfg) = 1
       THEN /\ isTouchDragging' = TRUE
            /\ lastTouchX' = cfg[1][1]
            /\ lastTouchY' = cfg[1][2]
            /\ UNCHANGED <<elemVars, appVars, effects, camera, isFlying, mouseVars, lastPinchDistance,
                           domVars, navVars>>
       ELSE IF Len(cfg) = 2
       THEN /\ isTouchDragging' = FALSE
            /\ lastPinchDistance' = getTouchDistance(cfg[1], cfg[2])
            /\ UNCHANGED <<elemVars, appVars, effects, camera, isFlying, mouseVars, lastTouchX, lastTouchY,
                           domVars, navVars>>
       ELSE UNCHANGED <<elemVars, appVars, effects, camera, isFlying, mouseVars, touchVars, domVars, navVars>>

\* the touchmove listener without its isFlying check
touchmove_noFlyingCheck(cfg) ==
    /\ alive
    /\ Len(cfg) = touchCount /\ touchCount > 0
    /\ touchCount' = touchCount
    /\ IF ~solsystemContainer
       THEN UNCHANGED <<elemVars, appVars, effects, camera, isFlying, mouseVars, touchVars, domVars, navVars>>
       ELSE IF Len(cfg) = 1 /\ isTouchDragging
       THEN LET touch == cfg[1]
                moved == [camera EXCEPT !.x = Plus(@, Num(touch[1] - lastTouchX)),
                                        !.y = Plus(@, Num(touch[2] - lastTouchY))]
            IN  /\ InPanBox(moved)
                /\ camera' = moved
                /\ lastTouchX' = touch[1]
                /\ lastTouchY' = touch[2]
                /\ updateCamera(moved)
                /\ UNCHANGED <<elemVars, appVars, effects, isFlying, mouseVars, isTouchDragging,
                               lastPinchDistance, transition, isTarget, worldIsFlying,
                               containerIsFlying, navVars>>
       ELSE IF Len(cfg) = 2
       THEN LET currentDistance == getTouchDistance(cfg[1], cfg[2])
                zoomed == [camera EXCEPT !.scale =
                                             pinchZoom(@, lastPinchDistance, currentDistance)]
            IN  /\ IF lastPinchDistance # 0
                   THEN camera' = zoomed /\ updateCamera(zoomed)
                   ELSE UNCHANGED <<camera, transform>>
                /\ lastPinchDistance' = currentDistance
                /\ UNCHANGED <<elemVars, appVars, effects, isFlying, mouseVars, isTouchDragging, lastTouchX,
                               lastTouchY, transition, isTarget, worldIsFlying,
                               containerIsFlying, navVars>>
       ELSE UNCHANGED <<elemVars, appVars, effects, camera, isFlying, mouseVars, touchVars, domVars, navVars>>

\* the touchmove listener dropping the distance of a move whose zoom was clamped
touchmove_dropsClampedDistance(cfg) ==
    /\ alive
    /\ Len(cfg) = touchCount /\ touchCount > 0
    /\ touchCount' = touchCount
    /\ IF ~solsystemContainer \/ isFlying
       THEN UNCHANGED <<elemVars, appVars, effects, camera, isFlying, mouseVars, touchVars, domVars, navVars>>
       ELSE IF Len(cfg) = 1 /\ isTouchDragging
       THEN LET touch == cfg[1]
                moved == [camera EXCEPT !.x = Plus(@, Num(touch[1] - lastTouchX)),
                                        !.y = Plus(@, Num(touch[2] - lastTouchY))]
            IN  /\ InPanBox(moved)
                /\ camera' = moved
                /\ lastTouchX' = touch[1]
                /\ lastTouchY' = touch[2]
                /\ updateCamera(moved)
                /\ UNCHANGED <<elemVars, appVars, effects, isFlying, mouseVars, isTouchDragging,
                               lastPinchDistance, transition, isTarget, worldIsFlying,
                               containerIsFlying, navVars>>
       ELSE IF Len(cfg) = 2
       THEN LET currentDistance == getTouchDistance(cfg[1], cfg[2])
                zoomed == [camera EXCEPT !.scale =
                                             pinchZoom(@, lastPinchDistance, currentDistance)]
            IN  /\ IF lastPinchDistance # 0
                   THEN camera' = zoomed /\ updateCamera(zoomed)
                   ELSE UNCHANGED <<camera, transform>>
                /\ lastPinchDistance' =
                       IF zoomed.scale = Plus(camera.scale,
                                              Times(Num(currentDistance - lastPinchDistance),
                                                    PINCH_FACTOR))
                       THEN currentDistance
                       ELSE lastPinchDistance
                /\ UNCHANGED <<elemVars, appVars, effects, isFlying, mouseVars, isTouchDragging, lastTouchX,
                               lastTouchY, transition, isTarget, worldIsFlying,
                               containerIsFlying, navVars>>
       ELSE UNCHANGED <<elemVars, appVars, effects, camera, isFlying, mouseVars, touchVars, domVars, navVars>>

\* the touchmove listener with the drag branch sharing the mouse's reference
\* point (lastX, lastY) instead of keeping its own
touchmove_sharedReference(cfg) ==
    /\ alive
    /\ Len(cfg) = touchCount /\ touchCount > 0
    /\ touchCount' = touchCount
    /\ IF ~solsystemContainer \/ isFlying
       THEN UNCHANGED <<elemVars, appVars, effects, camera, isFlying, mouseVars, touchVars, domVars, navVars>>
       ELSE IF Len(cfg) = 1 /\ isTouchDragging
       THEN LET touch == cfg[1]
                moved == [camera EXCEPT !.x = Plus(@, Num(touch[1] - lastX)),
                                        !.y = Plus(@, Num(touch[2] - lastY))]
            IN  /\ InPanBox(moved)
                /\ camera' = moved
                /\ lastX' = touch[1]
                /\ lastY' = touch[2]
                /\ updateCamera(moved)
                /\ UNCHANGED <<elemVars, appVars, effects, isFlying, isDragging, touchVars,
                               transition, isTarget, worldIsFlying,
                               containerIsFlying, navVars>>
       ELSE UNCHANGED <<elemVars, appVars, effects, camera, isFlying, mouseVars, touchVars, domVars, navVars>>

\* solsystemContainer "touchmove": cfg is e.touches, the contacts that are down
touchmove(cfg) ==
    /\ alive
    /\ Len(cfg) = touchCount /\ touchCount > 0
    /\ touchCount' = touchCount
    /\ IF ~solsystemContainer \/ isFlying
       THEN UNCHANGED <<elemVars, appVars, effects, camera, isFlying, mouseVars, touchVars, domVars, navVars>>
       ELSE IF Len(cfg) = 1 /\ isTouchDragging
       THEN LET touch == cfg[1]
                moved == [camera EXCEPT !.x = Plus(@, Num(touch[1] - lastTouchX)),
                                        !.y = Plus(@, Num(touch[2] - lastTouchY))]
            IN  /\ InPanBox(moved)
                /\ camera' = moved
                /\ lastTouchX' = touch[1]
                /\ lastTouchY' = touch[2]
                /\ updateCamera(moved)
                /\ UNCHANGED <<elemVars, appVars, effects, isFlying, mouseVars, isTouchDragging,
                               lastPinchDistance, transition, isTarget, worldIsFlying,
                               containerIsFlying, navVars>>
       ELSE IF Len(cfg) = 2
       THEN LET currentDistance == getTouchDistance(cfg[1], cfg[2])
                zoomed == [camera EXCEPT !.scale =
                                             pinchZoom(@, lastPinchDistance, currentDistance)]
            IN  /\ IF lastPinchDistance # 0
                   THEN camera' = zoomed /\ updateCamera(zoomed)
                   ELSE UNCHANGED <<camera, transform>>
                /\ lastPinchDistance' = currentDistance
                /\ UNCHANGED <<elemVars, appVars, effects, isFlying, mouseVars, isTouchDragging, lastTouchX,
                               lastTouchY, transition, isTarget, worldIsFlying,
                               containerIsFlying, navVars>>
       ELSE UNCHANGED <<elemVars, appVars, effects, camera, isFlying, mouseVars, touchVars, domVars, navVars>>

\* the touchend listener without the re-seeding of lastTouch
touchend_noReseed(left) ==
    /\ alive
    /\ Len(left) < touchCount
    /\ LET n == Len(left)
       IN  /\ touchCount' = n
           /\ IF ~solsystemContainer \/ isFlying
              THEN UNCHANGED <<elemVars, appVars, effects, camera, isFlying, mouseVars, touchVars, domVars,
                               navVars>>
              ELSE IF Len(left) = 0
              THEN /\ isTouchDragging' = FALSE
                   /\ lastPinchDistance' = 0
                   /\ UNCHANGED <<elemVars, appVars, effects, camera, isFlying, mouseVars, lastTouchX,
                                  lastTouchY, domVars, navVars>>
              ELSE IF Len(left) = 1
              THEN /\ isTouchDragging' = TRUE
                   /\ lastPinchDistance' = 0
                   /\ UNCHANGED <<elemVars, appVars, effects, camera, isFlying, mouseVars, lastTouchX,
                                  lastTouchY, domVars, navVars>>
              ELSE UNCHANGED <<elemVars, appVars, effects, camera, isFlying, mouseVars, touchVars, domVars,
                               navVars>>

\* the touchend listener leaving the pinch reference when the last contact lifts
touchend_keepsPinch(left) ==
    /\ alive
    /\ Len(left) < touchCount
    /\ LET n == Len(left)
       IN  /\ touchCount' = n
           /\ IF ~solsystemContainer \/ isFlying
              THEN UNCHANGED <<elemVars, appVars, effects, camera, isFlying, mouseVars, touchVars, domVars,
                               navVars>>
              ELSE IF Len(left) = 0
              THEN /\ isTouchDragging' = FALSE
                   /\ UNCHANGED <<elemVars, appVars, effects, camera, isFlying, mouseVars, lastTouchX,
                                  lastTouchY, lastPinchDistance, domVars, navVars>>
              ELSE IF Len(left) = 1
              THEN /\ isTouchDragging' = TRUE
                   /\ lastTouchX' = left[1][1]
                   /\ lastTouchY' = left[1][2]
                   /\ lastPinchDistance' = 0
                   /\ UNCHANGED <<elemVars, appVars, effects, camera, isFlying, mouseVars, domVars, navVars>>
              ELSE UNCHANGED <<elemVars, appVars, effects, camera, isFlying, mouseVars, touchVars, domVars,
                               navVars>>

\* solsystemContainer "touchend": left is e.touches, the contacts still down
touchend(left) ==
    /\ alive
    /\ Len(left) < touchCount
    /\ LET n == Len(left)
       IN  /\ touchCount' = n
           /\ IF ~solsystemContainer \/ isFlying
              THEN UNCHANGED <<elemVars, appVars, effects, camera, isFlying, mouseVars, touchVars, domVars,
                               navVars>>
              ELSE IF Len(left) = 0
              THEN /\ isTouchDragging' = FALSE
                   /\ lastPinchDistance' = 0
                   /\ UNCHANGED <<elemVars, appVars, effects, camera, isFlying, mouseVars, lastTouchX,
                                  lastTouchY, domVars, navVars>>
              ELSE IF Len(left) = 1
              THEN /\ isTouchDragging' = TRUE
                   /\ lastTouchX' = left[1][1]
                   /\ lastTouchY' = left[1][2]
                   /\ lastPinchDistance' = 0
                   /\ UNCHANGED <<elemVars, appVars, effects, camera, isFlying, mouseVars, domVars, navVars>>
              ELSE UNCHANGED <<elemVars, appVars, effects, camera, isFlying, mouseVars, touchVars, domVars,
                               navVars>>

\* the setTimeout callback of focusOnPlanet: the i-th timer scheduled
navigate(i) ==
    /\ alive
    /\ i \in 1..Len(timers)
    /\ ~timers[i].fired
    /\ href' = NavigationUrl(timers[i].planetName)
    /\ timers' = [timers EXCEPT ![i].fired = TRUE]
    /\ effects' = Append(effects, "location.href")
    /\ UNCHANGED <<elemVars, appVars, camera, isFlying, mouseVars, touchVars, touchCount, domVars>>

----------------------------------------------------------------------------
(* The page's life cycle: main.js listens for pageshow.                     *)

\* window.location.reload(): the document is loaded again and its scripts run
\* again; localStorage outlives the document, and the new document gets its own
\* pageshow event, with persisted false
reload ==
    /\ camera' = camera0
    /\ transform' = <<>>
    /\ isFlying' = FALSE
    /\ isDragging' = FALSE /\ lastX' = 0 /\ lastY' = 0
    /\ isTouchDragging' = FALSE /\ lastTouchX' = 0 /\ lastTouchY' = 0
    /\ lastPinchDistance' = 0
    /\ touchCount' = 0
    /\ transition' = ""
    /\ isTarget' = {}
    /\ worldIsFlying' = FALSE
    /\ containerIsFlying' = FALSE
    /\ timers' = <<>>
    /\ href' = ""
    /\ console' = <<>>
    /\ effects' = <<"location.reload">>
    /\ pageshowEvent' = <<FALSE>>
    /\ calls' = <<>>
    /\ favoriteButton' = <<>>
    /\ returned' = <<>>
    /\ UNCHANGED <<solarWorld, solsystemContainer, localStorage>>

\* handlePageShow without the reload
handlePageShow_noReload ==
    /\ href = ""
    /\ pageshowEvent # <<>>
    /\ pageshowEvent' = <<>>
    /\ UNCHANGED <<elemVars, effects, camera, isFlying, mouseVars, touchVars, touchCount,
                   domVars, navVars, localStorage, calls, favoriteButton, returned>>

\* window "pageshow": handlePageShow(event), event.persisted = pageshowEvent[1]
handlePageShow ==
    /\ href = ""
    /\ pageshowEvent # <<>>
    /\ IF pageshowEvent[1]
       THEN reload
       ELSE /\ pageshowEvent' = <<>>
            /\ UNCHANGED <<elemVars, effects, camera, isFlying, mouseVars, touchVars,
                           touchCount, domVars, navVars, localStorage, calls,
                           favoriteButton, returned>>

\* the browser goes back to the map page and takes it out of the back/forward
\* cache: the document is shown as it was left and gets a pageshow event with
\* persisted true
restoreFromCache ==
    /\ href # ""
    /\ href' = ""
    /\ pageshowEvent' = <<TRUE>>
    /\ UNCHANGED <<elemVars, effects, camera, isFlying, mouseVars, touchVars, touchCount,
                   domVars, timers, localStorage, calls, favoriteButton, returned>>

----------------------------------------------------------------------------
(* Favourites: utils.mjs keeps them in localStorage as JSON text, and       *)
(* cardBuilder.mjs builds the button that toggles one.                      *)

\* the items a page offers: two ids, the first with two different contents
Items == { [id |-> "apod-1", title |-> "Orion"], [id |-> "apod-1", title |-> "M42"],
           [id |-> "apod-2", title |-> "Vela"] }
FavoriteKeys == {RESOURCE_FAVORITES_KEY, APOD_FAVORITES_KEY}

\* JSON.stringify of an array of items: the text of each element, in order
JSONstringify(data) ==
    [i \in 1..Len(data) |-> <<"{\"id\":\"", data[i].id, "\",\"title\":\"", data[i].title, "\"}">>]

\* JSON.parse of such a text
JSONparse(text) == [i \in 1..Len(text) |-> [id |-> text[i][2], title |-> text[i][4]]]

\* loadFavoritesByKey over a storage: the parsed array, or [] when the key
\* holds no item (JSON.parse(null) is null, not an array)
loadFavorites(storage, storageKey) ==
    IF storage[storageKey] = <<>> THEN <<>> ELSE JSONparse(storage[storageKey][1])

loadFavoritesByKey(storageKey) == loadFavorites(localStorage, storageKey)

\* saveFavoritesByKey over a storage: setItem(key, JSON.stringify(favorites))
saveFavorites(storage, storageKey, favorites) ==
    [storage EXCEPT ![storageKey] = <<JSONstringify(favorites)>>]

\* favorites.findIndex((favorite) => favorite.id === id), counted from 1;
\* 0 when there is none (JavaScript: from 0, and -1)
findIndex(favorites, id) ==
    IF \E i \in 1..Len(favorites) : favorites[i].id = id
    THEN CHOOSE i \in 1..Len(favorites) :
             /\ favorites[i].id = id
             /\ \A j \in 1..(i - 1) : favorites[j].id # id
    ELSE 0

\* favorites.splice(index, 1)
splice(favorites, index) ==
    [i \in 1..(Len(favorites) - 1) |-> IF i < index THEN favorites[i] ELSE favorites[i + 1]]

\* toggleFavoriteByKey that never removes: an item already stored is pushed
\* again
toggleFavorite_pushOnly(storage, storageKey, item) ==
    LET favorites == loadFavorites(storage, storageKey)
    IN  [storage |-> saveFavorites(storage, storageKey, Append(favorites, item)),
         returns |-> TRUE]

\* toggleFavoriteByKey as a function of the storage: the storage it leaves and
\* the value it returns
toggleFavorite(storage, storageKey, item) ==
    LET favorites == loadFavorites(storage, storageKey)
        existingIndex == findIndex(favorites, item.id)
    IN  IF existingIndex >= 1
        THEN [storage |-> saveFavorites(storage, storageKey, splice(favorites, existingIndex)),
              returns |-> FALSE]
        ELSE [storage |-> saveFavorites(storage, storageKey, Append(favorites, item)),
              returns |-> TRUE]

\* isFavoriteByKey over a storage
isFavorite(storage, storageKey, id) ==
    \E i \in 1..Len(loadFavorites(storage, storageKey)) :
        loadFavorites(storage, storageKey)[i].id = id

isFavoriteByKey(storageKey, id) == isFavorite(localStorage, storageKey, id)

cameraVars == <<camera, isFlying, mouseVars, touchVars, touchCount, domVars, navVars,
                effects, pageshowEvent>>

\* a call of toggleFavoriteByKey(storageKey, item)
toggleFavoriteByKey(storageKey, item) ==
    /\ alive
    /\ localStorage' = toggleFavorite(localStorage, storageKey, item).storage
    /\ returned' = <<toggleFavorite(localStorage, storageKey, item).returns>>
    /\ UNCHANGED <<elemVars, cameraVars, calls, favoriteButton>>

\* createFavoriteToggle(item, options): options.isFavorite is <<>> (not given)
\* or <<boolean>>, options.onToggle is <<>> (not given) or <<storageKey>>, the
\* callback (item) => toggleFavoriteByKey(storageKey, item) of the pages
createFavoriteToggle(item, isFavoriteOption, onToggle) ==
    /\ alive
    /\ LET initialState == IF isFavoriteOption = <<>> THEN TRUE ELSE isFavoriteOption[1]
       IN  favoriteButton' = <<[item |-> item, onToggle |-> onToggle,
                                initialState |-> initialState,
                                isFavorited |-> initialState,
                                clicks |-> 0]>>
    /\ UNCHANGED <<elemVars, cameraVars, localStorage, calls, returned>>

\* the button's "click" listener; the button counts the clicks it has handled
favoriteClick ==
    /\ alive
    /\ favoriteButton # <<>>
    /\ favoriteButton[1].clicks < MaxClicks
    /\ LET b == favoriteButton[1]
       IN  IF b.onToggle # <<>>
           THEN LET toggled == toggleFavorite(localStorage, b.onToggle[1], b.item)
                IN  /\ localStorage' = toggled.storage
                    /\ returned' = <<toggled.returns>>
                    /\ favoriteButton' = <<[b EXCEPT !.isFavorited = toggled.returns,
                                                              !.clicks = @ + 1]>>
           ELSE /\ favoriteButton' = <<[b EXCEPT !.isFavorited = ~b.initialState,
                                                         !.clicks = @ + 1]>>
                /\ UNCHANGED <<localStorage, returned>>
    /\ UNCHANGED <<elemVars, cameraVars, calls>>

----------------------------------------------------------------------------
(* The planet cache of dataStuff.mjs: one object, planet name -> data, kept *)
(* as JSON text under NINJA_PLANETS_STORAGE_KEY.  An object is the sequence *)
(* of its own entries [key, value] in insertion order; a planet's data is   *)
(* [name, rev], rev telling two responses of the API apart.                 *)

\* the queries of the planet pages (?planet=...): "" is the empty string
Queries == {"Earth", "earth", "MARS", "constructor", ""}

\* query.toLowerCase()
toLowerCase(query) ==
    CASE query = "Earth" -> "earth"
      [] query = "MARS"  -> "mars"
      [] OTHER           -> query

\* what fetchPlanetData(query) can resolve with: the first match of the API
Responses(query) == { [name |-> toLowerCase(query), rev |-> r] : r \in {1, 2} }

\* JSON.stringify of a cache object
stringifyCache(cache) ==
    [i \in 1..Len(cache) |->
        <<"\"", cache[i].key, "\":{\"name\":\"", cache[i].value.name, "\",\"rev\":",
          cache[i].value.rev, "}">>]

\* JSON.parse of such a text
parseCache(text) ==
    [i \in 1..Len(text) |->
        [key |-> text[i][2], value |-> [name |-> text[i][4], rev |-> text[i][6]]]]

\* getCachedNinjaPlanets over a storage: <<>> is null, <<object>> the stored
\* object
getCached(storage) ==
    IF storage[NINJA_PLANETS_STORAGE_KEY] = <<>> THEN <<>>
    ELSE <<parseCache(storage[NINJA_PLANETS_STORAGE_KEY][1])>>

getCachedNinjaPlanets == getCached(localStorage)

hasOwn(object, key) == \E i \in 1..Len(object) : object[i].key = key

\* the properties every object inherits from Object.prototype, among the
\* lower-cased queries, and the value found there (a function, truthy)
ObjectPrototype == {"constructor"}
inheritedValue == [name |-> "function Object", rev |-> 0]

\* cache?.[key]: <<>> is undefined
getProperty(cache, key) ==
    IF cache = <<>> THEN <<>>
    ELSE IF hasOwn(cache[1], key)
    THEN <<cache[1][CHOOSE i \in 1..Len(cache[1]) : cache[1][i].key = key].value>>
    ELSE IF key \in ObjectPrototype THEN <<inheritedValue>>
    ELSE <<>>

\* object[key] = value on a copy of the object
setProperty(object, key, value) ==
    IF hasOwn(object, key)
    THEN [i \in 1..Len(object) |->
             IF object[i].key = key THEN [key |-> key, value |-> value] ELSE object[i]]
    ELSE Append(object, [key |-> key, value |-> value])

\* nextCache built from nothing instead of from a copy of the cache read
nextCache_fresh(cache, normalized, fetched) ==
    setProperty(<<>>, normalized, fetched)

\* nextCache = { ...(cache || {}) }; nextCache[normalized] = fetched
nextCache(cache, normalized, fetched) ==
    setProperty(IF cache = <<>> THEN <<>> ELSE cache[1], normalized, fetched)

\* getPlanetData(query) up to its await (or its return): the call reads the
\* cache, and returns what it finds there or starts fetchPlanetData
getPlanetData(query) ==
    /\ alive
    /\ Len(calls) < MaxCalls
    /\ LET normalized == toLowerCase(query)
           cache == getCachedNinjaPlanets
       IN  calls' = Append(calls,
               IF normalized = ""
               THEN [query |-> query, normalized |-> normalized, cache |-> <<>>,
                     pc |-> "fetching", fetches |-> TRUE, result |-> <<>>]
               ELSE IF getProperty(cache, normalized) # <<>>
               THEN [query |-> query, normalized |-> normalized, cache |-> cache,
                     pc |-> "returned", fetches |-> FALSE,
                     result |-> getProperty(cache, normalized)]
               ELSE [query |-> query, normalized |-> normalized, cache |-> cache,
                     pc |-> "fetching", fetches |-> TRUE, result |-> <<>>])
    /\ UNCHANGED <<elemVars, cameraVars, localStorage, favoriteButton, returned>>

\* the i-th call resumes after its await: fetchPlanetData resolved with fetched
fetchResolved(i, fetched) ==
    /\ alive
    /\ i \in 1..Len(calls)
    /\ calls[i].pc = "fetching"
    /\ fetched \in Responses(calls[i].query)
    /\ calls' = [calls EXCEPT ![i].pc = "returned", ![i].result = <<fetched>>]
    /\ IF calls[i].normalized = ""
       THEN UNCHANGED localStorage
       ELSE localStorage' =
                [localStorage EXCEPT ![NINJA_PLANETS_STORAGE_KEY] =
                    <<stringifyCache(nextCache(calls[i].cache, calls[i].normalized, fetched))>>]
    /\ UNCHANGED <<elemVars, cameraVars, favoriteButton, returned>>

\* fetchPlanetData rejected (network error, error status, no match): the
\* i-th call throws
fetchRejected(i) ==
    /\ alive
    /\ i \in 1..Len(calls)
    /\ calls[i].pc = "fetching"
    /\ calls' = [calls EXCEPT ![i].pc = "rejected"]
    /\ UNCHANGED <<elemVars, cameraVars, localStorage, favoriteButton, returned>>

----------------------------------------------------------------------------

Click     == \E c \in Clicks : click(c[1], c[2])
MouseDown == \E p \in MousePoints, onPlanet \in BOOLEAN, button \in Buttons :
                 mousedown(p, onPlanet, button)
MouseUp   == mouseup
MouseMove == \E p \in MousePoints : mousemove(p)
Wheel     == \E deltaY \in WheelDeltas : wheel(deltaY)
TouchStart == \E cfg \in TouchConfigs, onPlanet \in BOOLEAN : touchstart(cfg, onPlanet)
TouchMove == \E cfg \in TouchConfigs : touchmove(cfg)
TouchEnd  == \E left \in TouchConfigs : touchend(left)
Navigate  == \E i \in 1..Len(timers) : navigate(i)

Next ==
    \/ Click
    \/ MouseDown
    \/ MouseUp
    \/ MouseMove
    \/ Wheel
    \/ TouchStart
    \/ TouchMove
    \/ TouchEnd
    \/ Navigate

Spec == Init /\ [][Next]_vars

\* the event loop runs a timer callback that is due
LiveSpec == Spec /\ WF_vars(Navigate)

----------------------------------------------------------------------------
(* focusOnPlanet as a function of the camera at the click and of the        *)
(* marker's rectangle: the page has been panned and zoomed to any of the    *)
(* cameras below, the pointer released, and a marker is clicked.            *)

FocusOffsets == {-1500, 0, 250}
FocusScales  == {MIN_SCALE, Num(1), Norm(3, 2), MAX_SCALE}
FocusRects   == {RectA, RectB, [left |-> 0, top |-> 0, width |-> 0, height |-> 0]}

InitFocus ==
    /\ solarWorld = TRUE
    /\ solsystemContainer = TRUE
    /\ \E x \in FocusOffsets, y \in FocusOffsets, s \in FocusScales :
           /\ camera = [x |-> Num(x), y |-> Num(y), scale |-> s]
           /\ transform = transformString(camera)
    /\ Idle

ClickFocus == \E target \in Markers \cup {"space"}, rect \in FocusRects : click(target, rect)

NextFocus ==
    \/ ClickFocus
    \/ Navigate

FocusSpec == InitFocus /\ [][NextFocus]_vars

----------------------------------------------------------------------------
(* Two drags at once: a mouse button is held (pressed at the origin) while  *)
(* one finger is down (put down at the origin); the only events are         *)
(* mousemove and one-contact touchmove, in any order.                       *)

DragMousePoints == { <<x, y>> : x \in {0, 100, 200}, y \in {0, 10, 20, 30} }
DragTouchPoints == { <<x, y>> : x \in {0, 400, 800}, y \in {0, 50, 100} }

InitDrag ==
    /\ solarWorld = TRUE
    /\ solsystemContainer = TRUE
    /\ camera = camera0
    /\ transform = <<>>
    /\ isFlying = FALSE
    /\ isDragging = TRUE /\ lastX = 0 /\ lastY = 0
    /\ isTouchDragging = TRUE /\ lastTouchX = 0 /\ lastTouchY = 0
    /\ lastPinchDistance = 0
    /\ touchCount = 1
    /\ transition = ""
    /\ isTarget = {}
    /\ worldIsFlying = FALSE
    /\ containerIsFlying = FALSE
    /\ timers = <<>>
    /\ href = ""
    /\ console = <<>>
    /\ effects = <<>>
    /\ pageshowEvent = <<>>
    /\ NoApp

DragMouseMove == \E p \in DragMousePoints : mousemove(p)
DragTouchMove == \E p \in DragTouchPoints : touchmove(<<p>>)

NextDrag ==
    \/ DragMouseMove
    \/ DragTouchMove

DragSpec == InitDrag /\ [][NextDrag]_vars

----------------------------------------------------------------------------
(* Leaving the map and coming back: wheel zooms, clicks on the markers, the *)
(* navigation timer, and the browser's back navigation, which shows the     *)
(* page again out of the back/forward cache.                                *)

InitPage ==
    /\ solarWorld = TRUE
    /\ solsystemContainer = TRUE
    /\ camera = camera0
    /\ transform = <<>>
    /\ Idle

PageWheel    == \E deltaY \in {-500, 500, 5000} : wheel(deltaY)
PageRestored == restoreFromCache
PageShow     == handlePageShow

NextPage ==
    \/ PageWheel
    \/ Click
    \/ Navigate
    \/ PageRestored
    \/ PageShow

PageSpec == InitPage /\ [][NextPage]_vars

----------------------------------------------------------------------------
(* The favourites of a page: direct calls of toggleFavoriteByKey, and one   *)
(* toggle button at a time, built as the pages build it (the option         *)
(* isFavorite read from the storage, onToggle writing to it) or with        *)
(* options left out.                                                        *)

InitFavorites ==
    /\ solarWorld = TRUE
    /\ solsystemContainer = TRUE
    /\ camera = camera0
    /\ transform = <<>>
    /\ Idle

ToggleFavorite == \E storageKey \in FavoriteKeys, item \in Items :
                      toggleFavoriteByKey(storageKey, item)
CreatePageToggle == \E storageKey \in FavoriteKeys, item \in Items :
                        createFavoriteToggle(item, <<isFavoriteByKey(storageKey, item.id)>>,
                                             <<storageKey>>)
CreateBareToggle == \E item \in Items, isFavoriteOption \in {<<>>, <<TRUE>>, <<FALSE>>} :
                        createFavoriteToggle(item, isFavoriteOption, <<>>)
FavoriteClick == favoriteClick

NextFavorites ==
    \/ ToggleFavorite
    \/ CreatePageToggle
    \/ CreateBareToggle
    \/ FavoriteClick

FavoritesSpec == InitFavorites /\ [][NextFavorites]_vars

----------------------------------------------------------------------------
(* The planet cache: calls of getPlanetData, overlapping or one after the   *)
(* other, each fetch resolving or rejecting at any later time.              *)

InitPlanetData ==
    /\ solarWorld = TRUE
    /\ solsystemContainer = TRUE
    /\ camera = camera0
    /\ transform = <<>>
    /\ Idle

GetPlanetData == \E query \in Queries : getPlanetData(query)
FetchResolved == \E i \in 1..MaxCalls, query \in Queries :
                     \E fetched \in Responses(query) : fetchResolved(i, fetched)
FetchRejected == \E i \in 1..MaxCalls : fetchRejected(i)

\* the page is left and opened again: the calls are gone, the storage stays
PlanetPageReload == alive /\ calls # <<>> /\ reload

NextPlanetData ==
    \/ GetPlanetData
    \/ FetchResolved
    \/ FetchRejected
    \/ PlanetPageReload

PlanetDataSpec == InitPlanetData /\ [][NextPlanetData]_vars

----------------------------------------------------------------------------
(* Zooming alone: both elements are present and the only events are wheel   *)
(* events and two-contact (pinch) gestures, with finer and larger deltas    *)
(* than those of Spec.                                                      *)

ZoomWheelDeltas == {-5000, -500, -250, 250, 500, 5000}

\* pinch pairs 250, 500 and 2000 pixels apart
ZoomPinchPairs == { << <<0, 0>>, <<150, 200>> >>, << <<0, 0>>, <<300, 400>> >>,
                    << <<0, 0>>, <<1200, 1600>> >> }

InitZoom ==
    /\ solarWorld = TRUE
    /\ solsystemContainer = TRUE
    /\ camera = camera0
    /\ transform = <<>>
    /\ Idle

ZoomWheel      == \E deltaY \in ZoomWheelDeltas : wheel(deltaY)
ZoomPinchStart == \E cfg \in ZoomPinchPairs, onPlanet \in BOOLEAN : touchstart(cfg, onPlanet)
ZoomPinchMove  == \E cfg \in ZoomPinchPairs : touchmove(cfg)
ZoomPinchEnd   == touchend(<<>>)

NextZoom ==
    \/ ZoomWheel
    \/ ZoomPinchStart
    \/ ZoomPinchMove
    \/ ZoomPinchEnd

ZoomSpec == InitZoom /\ [][NextZoom]_vars

----------------------------------------------------------------------------
(* Properties of the controller.                                            *)

InRange(s) == LessEq(MIN_SCALE, s) /\ LessEq(s, MAX_SCALE)

\* C1: once isFlying is true, no step (mousedown, mousemove, mouseup, wheel,
\* touchstart, touchmove, touchend, a click on a marker, the timer callback)
\* changes the camera's x, y or scale.
C1_FlyingFreezesCamera == [][isFlying => camera' = camera]_vars

\* a touchend was delivered and ignored during a flight: one contact is left
\* down with the pinch reference still set
C1_Witness == isFlying /\ touchCount = 1 /\ lastPinchDistance # 0

\* C2: while isFlying is false, MIN_SCALE <= scale <= MAX_SCALE after every
\* wheel and pinch event, whatever their magnitude and sign.
C2_ClampInvariant == ~isFlying => InRange(camera.scale)

\* a zoom-out was clamped at the lower bound and a pinch is in progress
C2_Witness ==
    ~isFlying /\ camera.scale = MIN_SCALE /\ touchCount = 2 /\ lastPinchDistance # 0

\* C3: scale is outside [MIN_SCALE, MAX_SCALE] only while isFlying is true, it
\* then equals FLY_IN_SCALE, and it keeps that value in every later state.
C3_ScaleOutsideOnlyFlying ==
    /\ [](~InRange(camera.scale) => isFlying /\ camera.scale = FLY_IN_SCALE)
    /\ [][~InRange(camera.scale) => camera'.scale = camera.scale]_vars

\* the flight's scale is still in place when the navigation has fired
C3_Witness == camera.scale = Num(10) /\ ~InRange(camera.scale) /\ href # ""

\* C4: isFlying never goes back from true to false.
C4_FlyingIsTerminal == [][isFlying => isFlying']_vars

\* isFlying is still true after every contact of a touch drag lifted during
\* the flight and after the timer callback ran
C4_Witness == isFlying /\ touchCount = 0 /\ isTouchDragging /\ timers[1].fired

\* C5: once a focus has set isFlying, the navigation eventually fires, the
\* timer callback being run when it is due, whatever input arrives meanwhile.
C5_NavigationFires == isFlying ~> (href # "")

\* the navigation fired although a touchend arrived during the flight
C5_Witness == isFlying /\ href # "" /\ touchCount = 1 /\ lastPinchDistance # 0

\* C6: at most one navigation timer is ever scheduled, at most one marker ever
\* carries "is-target", and a click on a marker while isFlying is true changes
\* nothing.
C6_FocusAtMostOnce ==
    /\ [](Len(timers) <= 1 /\ Cardinality(isTarget) <= 1)
    /\ [][isFlying /\ Click => UNCHANGED vars]_vars

\* the one flight, to mars, with its timer still pending
C6_Witness ==
    isFlying /\ Len(timers) = 1 /\ isTarget = {"mars"} /\ ~timers[1].fired

\* C7: the page navigates only after a focus has set isFlying, and to
\* planet-pages/planet.html?planet=<name>, <name> being the data-name of the
\* one marker whose click started the flight.
C7_NavigationTarget ==
    href # "" =>
        /\ isFlying
        /\ \/ isTarget = {"earth"} /\ href = "planet-pages/planet.html?planet=earth"
           \/ isTarget = {"mars"} /\ href = "planet-pages/planet.html?planet=mars"

\* the page has navigated to the detail page of mars
C7_Witness == href = "planet-pages/planet.html?planet=mars" /\ touchCount = 2

\* the CSS transform translate(offset) scale(scale) about the world's centre:
\* where a world coordinate renders on screen
screenOf(world, base, offset, origin, scale) ==
    Plus(Plus(Plus(base, offset), origin), Times(scale, Minus(world, origin)))

BaseX == Num(400)
BaseY == Num(300)

\* C8: for every camera at the click and every marker rectangle, the camera
\* focus produces has scale FLY_IN_SCALE and maps the marker's world anchor
\* (the point the camera at the click rendered at the marker's screen centre)
\* to (baseX, baseY - FLY_IN_VERTICAL_OFFSET).
C8_FocusCentresMarker ==
    [][~isFlying /\ isFlying' =>
        LET f == timers'[1] IN
        /\ screenOf(f.planetWorldX, BaseX, camera.x, OriginX, camera.scale) = f.planetScreenX
        /\ screenOf(f.planetWorldY, BaseY, camera.y, OriginY, camera.scale) = f.planetScreenY
        /\ camera'.scale = Num(10)
        /\ screenOf(f.planetWorldX, BaseX, camera'.x, OriginX, camera'.scale) = BaseX
        /\ screenOf(f.planetWorldY, BaseY, camera'.y, OriginY, camera'.scale)
               = Minus(BaseY, Num(120))]_vars

\* a flight from the largest zoom to a marker that was off centre
C8_Witness ==
    /\ isFlying
    /\ timers[1].currentScale = MAX_SCALE
    /\ timers[1].planetScreenX # BaseX
    /\ camera.x[2] # 1

\* C9: for a marker at the viewport centre under the identity camera, the
\* world position re-derived with the inverse formula from the camera focus
\* produced, at the marker's screen position under that camera, is the
\* original world anchor, in x and in y.
C9_FlyInRoundTrip ==
    [][ (/\ ~isFlying /\ isFlying'
         /\ camera = [x |-> Num(0), y |-> Num(0), scale |-> Num(1)]
         /\ timers'[1].planetScreenX = BaseX
         /\ timers'[1].planetScreenY = BaseY) =>
        LET f == timers'[1]
            screenX == screenOf(f.planetWorldX, BaseX, camera'.x, OriginX, camera'.scale)
            screenY == screenOf(f.planetWorldY, BaseY, camera'.y, OriginY, camera'.scale)
        IN  /\ planetWorld(screenX, BaseX, camera'.x, OriginX, camera'.scale) = f.planetWorldX
            /\ planetWorld(screenY, BaseY, camera'.y, OriginY, camera'.scale) = f.planetWorldY
            /\ f.planetWorldX = Num(0)
            /\ f.planetWorldY = Num(0) ]_vars

\* the flight that started at the identity camera on a centred marker
C9_Witness ==
    /\ isFlying
    /\ timers[1].currentScale = Num(1)
    /\ timers[1].planetScreenX = BaseX /\ timers[1].planetScreenY = BaseY
    /\ timers[1].planetWorldX = Num(0) /\ timers[1].planetWorldY = Num(0)
    /\ camera.x = Num(13500)

\* C10: every move of a mouse drag or of a single-touch drag, while not
\* flying, leaves offset minus pointer position unchanged, records the
\* pointer position and leaves scale unchanged; so after any moves of one
\* drag offset - offset at press = pointer - press position, and one move by
\* (dx, dy) ends where two moves adding up to (dx, dy) end.
C10_PanLinearity ==
    [][ /\ \A p \in MousePoints :
            (isDragging /\ ~isFlying /\ mousemove(p)) =>
                /\ lastX' = p[1] /\ lastY' = p[2]
                /\ Minus(camera'.x, Num(lastX')) = Minus(camera.x, Num(lastX))
                /\ Minus(camera'.y, Num(lastY')) = Minus(camera.y, Num(lastY))
                /\ camera'.scale = camera.scale
        /\ \A cfg \in TouchConfigs :
            (Len(cfg) = 1 /\ isTouchDragging /\ ~isFlying /\ solsystemContainer
               /\ touchmove(cfg)) =>
                /\ lastTouchX' = cfg[1][1] /\ lastTouchY' = cfg[1][2]
                /\ Minus(camera'.x, Num(lastTouchX')) = Minus(camera.x, Num(lastTouchX))
                /\ Minus(camera'.y, Num(lastTouchY')) = Minus(camera.y, Num(lastTouchY))
                /\ camera'.scale = camera.scale ]_vars

\* a touch drag that has carried the camera from (-1500, -1500) to (0, 0)
\* while a mouse drag moved it too
C10_Witness ==
    /\ ~isFlying /\ isTouchDragging /\ touchCount = 1
    /\ lastTouchX = 500 /\ lastTouchY = 1000
    /\ isDragging /\ lastX = 1500
    /\ camera.x = Num(-1000) /\ camera.y = Num(-500)

----------------------------------------------------------------------------
(* Zoom saturation and proportionality.                                     *)

Less(a, b) == ~LessEq(b, a)

\* the zoom input of a wheel event: 0.001 * (-deltaY)
wheelInput(deltaY) == Times(Norm(1, 1000), Num(-deltaY))

\* the zoom input of a two-contact move: 0.002 * (new distance - last distance)
pinchInput(cfg) ==
    Times(Norm(2, 1000), Num(getTouchDistance(cfg[1], cfg[2]) - lastPinchDistance))

\* n consecutive wheel events of deltaY, starting from scale s
RECURSIVE WheelRun(_, _, _)
WheelRun(s, deltaY, n) ==
    IF n = 0 THEN s ELSE WheelRun(wheelZoom(s, deltaY), deltaY, n - 1)

\* a step at a bound: an input toward the bound leaves the scale there, an
\* input away from it moves the scale by the input, as far as the other bound
SaturationStep(z) ==
    /\ (camera.scale = MAX_SCALE /\ LessEq(Num(0), z)) => camera'.scale = MAX_SCALE
    /\ (camera.scale = MIN_SCALE /\ LessEq(z, Num(0))) => camera'.scale = MIN_SCALE
    /\ (camera.scale = MAX_SCALE /\ Less(z, Num(0)))
           => camera'.scale = MathMax(MIN_SCALE, Plus(camera.scale, z))
    /\ (camera.scale = MIN_SCALE /\ Less(Num(0), z))
           => camera'.scale = MathMin(MAX_SCALE, Plus(camera.scale, z))

\* the same with the input away from the bound always applied in full
FullDeltaStep(z) ==
    /\ (camera.scale = MAX_SCALE /\ LessEq(Num(0), z)) => camera'.scale = MAX_SCALE
    /\ (camera.scale = MIN_SCALE /\ LessEq(z, Num(0))) => camera'.scale = MIN_SCALE
    /\ (camera.scale = MAX_SCALE /\ Less(z, Num(0)))
           => camera'.scale = Plus(camera.scale, z)
    /\ (camera.scale = MIN_SCALE /\ Less(Num(0), z))
           => camera'.scale = Plus(camera.scale, z)

\* C11 as stated: ten wheel events of deltaY = -500 from scale 1 leave the
\* scale at exactly 3; at a bound every wheel or pinch input toward the bound
\* leaves the scale at the bound, and the first input in the opposite
\* direction moves it off the bound by the full input.
C11_FullDeltaOffBound ==
    /\ [](WheelRun(Num(1), -500, 10) = Num(3))
    /\ [][\A deltaY \in ZoomWheelDeltas :
              (wheel(deltaY) /\ ~isFlying) => FullDeltaStep(wheelInput(deltaY))]_vars
    /\ [][\A cfg \in ZoomPinchPairs :
              (touchmove(cfg) /\ ~isFlying /\ lastPinchDistance # 0)
                  => FullDeltaStep(pinchInput(cfg))]_vars

\* C11, amended: ten wheel events of deltaY = -500 from scale 1 leave the
\* scale at exactly 3; at a bound every wheel or pinch input toward the bound
\* leaves the scale at the bound, and the first input in the opposite
\* direction moves it off the bound by the full input, or onto the other
\* bound when the input is larger than MAX_SCALE - MIN_SCALE.
C11_Saturation ==
    /\ [](WheelRun(Num(1), -500, 10) = Num(3))
    /\ [][\A deltaY \in ZoomWheelDeltas :
              (wheel(deltaY) /\ ~isFlying) => SaturationStep(wheelInput(deltaY))]_vars
    /\ [][\A cfg \in ZoomPinchPairs :
              (touchmove(cfg) /\ ~isFlying /\ lastPinchDistance # 0)
                  => SaturationStep(pinchInput(cfg))]_vars

\* the scale has been pinched onto the upper bound and wheeled or pinched off
\* it again onto the lower one
C11_Witness ==
    /\ camera.scale = MIN_SCALE
    /\ touchCount = 2 /\ lastPinchDistance = 250
    /\ transform = transformString(camera)

pinchDistance(cfg) == getTouchDistance(cfg[1], cfg[2])

\* C12: for a fixed current scale the scale a zoom event assigns is a
\* non-decreasing function of the zoom input (-deltaY for the wheel, the new
\* inter-contact distance for a pinch with a recorded last distance); and
\* whenever the unclamped result lies within [MIN_SCALE, MAX_SCALE] the scale
\* changes by exactly 0.001 * (-deltaY) for the wheel and by exactly
\* 0.002 * (new distance - last distance) for a pinch.  A two-contact move
\* with no recorded distance (lastPinchDistance = 0) leaves the scale as it is.
C12_MonotoneProportional ==
    /\ [](~isFlying =>
            \A d1, d2 \in ZoomWheelDeltas :
                (-d1 <= -d2) => LessEq(wheelZoom(camera.scale, d1),
                                       wheelZoom(camera.scale, d2)))
    /\ [](~isFlying /\ lastPinchDistance # 0 =>
            \A c1, c2 \in ZoomPinchPairs :
                (pinchDistance(c1) <= pinchDistance(c2))
                    => LessEq(pinchZoom(camera.scale, lastPinchDistance, pinchDistance(c1)),
                              pinchZoom(camera.scale, lastPinchDistance, pinchDistance(c2))))
    /\ [][\A deltaY \in ZoomWheelDeltas :
              (wheel(deltaY) /\ ~isFlying
                   /\ InRange(Plus(camera.scale, wheelInput(deltaY))))
                  => camera'.scale = Plus(camera.scale, wheelInput(deltaY))]_vars
    /\ [][\A cfg \in ZoomPinchPairs :
              (touchmove(cfg) /\ ~isFlying /\ lastPinchDistance # 0
                   /\ InRange(Plus(camera.scale, pinchInput(cfg))))
                  => camera'.scale = Plus(camera.scale, pinchInput(cfg))]_vars
    /\ [][\A cfg \in ZoomPinchPairs :
              (touchmove(cfg) /\ lastPinchDistance = 0) => camera' = camera]_vars

\* the scale has gone from 1 to 1.75 by a wheel step of 0.25 and a pinch step
\* of 0.5 (or the like), neither clamped, and the pinch is still held
C12_Witness ==
    /\ camera.scale = Norm(7, 4)
    /\ touchCount = 2 /\ lastPinchDistance = 500
    /\ transform = transformString(camera)

----------------------------------------------------------------------------
(* Touch gestures.                                                          *)

\* C13: a touchend that leaves exactly one contact while not flying sets
\* isTouchDragging, sets lastTouch to the remaining contact's coordinates and
\* clears the pinch reference; lastTouch then stays as it is until a touch
\* move, and the next one-contact touchmove pans the offsets by exactly
\* (new position - lastTouch), whatever was recorded before or during the
\* pinch, and leaves the scale alone.
C13_PinchToPanReseed ==
    /\ [][\A left \in TouchConfigs :
              (touchend(left) /\ Len(left) = 1 /\ ~isFlying /\ solsystemContainer)
                  => /\ isTouchDragging' = TRUE
                     /\ lastTouchX' = left[1][1]
                     /\ lastTouchY' = left[1][2]
                     /\ lastPinchDistance' = 0]_vars
    /\ [][(touchCount' = touchCount /\ ~(\E cfg \in TouchConfigs : touchmove(cfg)))
              => UNCHANGED <<lastTouchX, lastTouchY>>]_vars
    /\ [][\A cfg \in TouchConfigs :
              (touchmove(cfg) /\ Len(cfg) = 1 /\ isTouchDragging /\ ~isFlying
                   /\ solsystemContainer)
                  => /\ camera'.x = Plus(camera.x, Num(cfg[1][1] - lastTouchX))
                     /\ camera'.y = Plus(camera.y, Num(cfg[1][2] - lastTouchY))
                     /\ camera'.scale = camera.scale]_vars

\* after a pinch to the upper bound one contact was lifted and the remaining
\* one has moved the map by (500, 1000)
C13_Witness ==
    /\ ~isFlying /\ touchCount = 1 /\ isTouchDragging /\ lastPinchDistance = 0
    /\ camera = [x |-> Num(-1000), y |-> Num(-500), scale |-> MAX_SCALE]
    /\ lastTouchX = 500 /\ lastTouchY = 1000

----------------------------------------------------------------------------
(* Clicks that start no flight.                                             *)

\* C14: a click whose target is not inside any marker never sets isFlying,
\* never schedules a navigation and leaves the camera as it is.
C14_ClickOutsideMarker ==
    [][\A target \in {"space"}, rect \in {RectA, RectB} :
           click(target, rect) => UNCHANGED <<isFlying, timers, href, camera>>]_vars

\* the click listener is attached, the map has been zoomed and is being
\* dragged, and no flight has started: a click outside the markers acts here
C14_Witness ==
    /\ solarWorld /\ solsystemContainer /\ ~isFlying /\ timers = <<>> /\ href = ""
    /\ isDragging /\ camera.scale = MIN_SCALE /\ transform = transformString(camera)

\* C15: a click on a marker whose data-name is missing or empty changes
\* nothing: no class is added, isFlying is not set, the camera is not changed
\* and no timer is scheduled.  The page is then in the state it was in, where
\* a click on a valid marker starts a flight whenever the page is not flying
\* (the flight C15_Witness reaches).
C15_InvalidMarkerNoOp ==
    /\ [][\A rect \in {RectA, RectB} : click("nameless", rect) => UNCHANGED vars]_vars
    /\ [][\A c \in {<<"earth", RectA>>, <<"mars", RectB>>} :
              (click(c[1], c[2]) /\ ~isFlying /\ solsystemContainer)
                  => (isFlying' /\ Len(timers') = Len(timers) + 1)]_vars

\* the flight a click on a valid marker has started, the page having been
\* panned before (where clicks on the nameless marker changed nothing)
C15_Witness ==
    /\ isFlying /\ isTarget = {"earth"} /\ href = ""
    /\ Len(timers) = 1 /\ timers[1].planetName = "earth"
    /\ timers[1].currentScale = MAX_SCALE

----------------------------------------------------------------------------
(* A page without the world or the container element.                       *)

ElementMissing == ~solarWorld \/ ~solsystemContainer

\* C16: if the world element or the container element is absent, every
\* operation is a no-op for every sequence of events: the camera keeps its
\* initial value, no transform is written, isFlying stays false and no
\* navigation is scheduled or made.
C16_MissingElementNoOp ==
    ElementMissing =>
        /\ camera = camera0
        /\ transform = <<>>
        /\ ~isFlying
        /\ timers = <<>> /\ href = ""

\* C17: initialization with the container or the world element absent logs
\* a warning and disables further operation: no event changes the camera,
\* the drag and pinch bookkeeping, the DOM state, the timers or the location.
C17_MissingElementWarnsAndDisables ==
    /\ [](ElementMissing => console # <<>>)
    /\ [][ElementMissing =>
              UNCHANGED <<camera, isFlying, mouseVars, touchVars, domVars, navVars>>]_vars

----------------------------------------------------------------------------
(* The inline transform.                                                    *)

\* the string translate(Xpx, Ypx) scale(S) of the current camera
Encoded ==
    <<"translate(", camera.x, "px, ", camera.y, "px) scale(", camera.scale, ")">>

\* C18: with the world element present, after every handler that changes the
\* camera (pan, zoom, focus) the inline transform of the world encodes
\* exactly the current camera, in the form translate(Xpx, Ypx) scale(S);
\* before the first change no transform is written and the camera is the
\* initial one.
C18_TransformEncodesCamera ==
    /\ [](solarWorld => (transform = Encoded \/ (transform = <<>> /\ camera = camera0)))
    /\ [][(solarWorld /\ camera' # camera) => transform' = Encoded']_vars

\* panned, zoomed out to the lower bound, and the transform says so
C18_Witness ==
    /\ solarWorld /\ ~isFlying
    /\ camera = [x |-> Num(-1000), y |-> Num(-500), scale |-> MIN_SCALE]
    /\ transform = Encoded

\* C19: the transform updateCamera writes depends on the camera alone: a
\* handler run that leaves the camera as it was, on a world whose transform
\* has been written before, writes the identical string, and a wheel event
\* that leaves the camera as it was changes no state at all.
C19_IdempotentReapplication ==
    /\ [][(solarWorld /\ camera' = camera /\ transform # <<>>)
              => transform' = transform]_vars
    /\ [][\A deltaY \in WheelDeltas :
              (wheel(deltaY) /\ camera' = camera /\ transform # <<>>)
                  => UNCHANGED vars]_vars

\* the scale sits on the upper bound with the transform written, the map not
\* panned: a further wheel event toward the bound re-applies the same camera
C19_Witness ==
    /\ solarWorld /\ solsystemContainer /\ ~isFlying /\ href = ""
    /\ camera = [camera0 EXCEPT !.scale = MAX_SCALE]
    /\ transform = Encoded
    /\ touchCount = 0 /\ ~isDragging

----------------------------------------------------------------------------
(* Presses on a marker.                                                     *)

----------------------------------------------------------------------------
(* Starting a pan or a pinch.                                               *)

\* C21: panning is started by a mouse press only when the press is of the
\* primary button: a mousedown with any other button leaves isDragging
\* false, and the mouse moves that follow do not pan.
C21_PrimaryButtonOnly ==
    /\ [][\A p \in MousePoints, onPlanet \in BOOLEAN, button \in Buttons \ {0} :
              (mousedown(p, onPlanet, button) /\ ~isDragging) => ~isDragging']_vars
    /\ [][\A p \in MousePoints : (mousemove(p) /\ ~isDragging) => UNCHANGED camera]_vars

\* C22: every touchstart that brings the contact count to exactly two while
\* not flying, from Idle or from Panning, returns with isTouchDragging false
\* and lastPinchDistance equal to the Euclidean distance of the two contacts.
C22_PinchTakesPrecedence ==
    [][\A cfg \in PinchPairs, onPlanet \in BOOLEAN :
           (touchstart(cfg, onPlanet) /\ ~isFlying /\ solsystemContainer)
               => /\ isTouchDragging' = FALSE
                  /\ lastPinchDistance' = getTouchDistance(cfg[1], cfg[2])]_vars

\* C23: after every two-contact touchmove while not flying lastPinchDistance
\* is the current distance of the contacts, whether the scale change was
\* applied, clamped away or not applied at all; so with the scale on a bound
\* after a pinch past it, a pinch back by distance d changes the scale by
\* exactly 0.002 * d, as far as the other bound.
C23_PinchDistanceTracks ==
    /\ [][\A cfg \in ZoomPinchPairs :
              (touchmove(cfg) /\ ~isFlying /\ solsystemContainer)
                  => lastPinchDistance' = pinchDistance(cfg)]_vars
    /\ [][\A cfg \in ZoomPinchPairs :
              (touchmove(cfg) /\ ~isFlying /\ lastPinchDistance # 0)
                  => LET back == Times(Norm(2, 1000),
                                       Num(Abs(pinchDistance(cfg) - lastPinchDistance)))
                     IN  /\ (camera.scale = MAX_SCALE
                                 /\ pinchDistance(cfg) < lastPinchDistance)
                             => camera'.scale = MathMax(MIN_SCALE, Minus(MAX_SCALE, back))
                         /\ (camera.scale = MIN_SCALE
                                 /\ pinchDistance(cfg) > lastPinchDistance)
                             => camera'.scale = MathMin(MAX_SCALE, Plus(MIN_SCALE, back))]_vars

\* the contacts were spread past the upper bound: the scale is clamped and
\* the recorded distance is the one the contacts are at
C23_Witness ==
    /\ camera.scale = MAX_SCALE /\ ~isFlying
    /\ touchCount = 2 /\ lastPinchDistance = 2000
    /\ transform = transformString(camera)

----------------------------------------------------------------------------
(* Release.                                                                 *)

\* C24: release returns the session to Idle.  A mouseup leaves isDragging
\* false, it stays false until the next mousedown off the markers, and
\* meanwhile no mousemove changes the camera.  A touchend with no contact
\* left while not flying leaves isTouchDragging false and lastPinchDistance
\* 0, so with no contact down and no flight both are clear, and a touchmove
\* changes the camera only with a drag or a pinch reference in place.
C24_ReleaseReturnsToIdle ==
    /\ [][mouseup => ~isDragging']_vars
    /\ [][(~isDragging /\ isDragging')
              => \E p \in MousePoints, button \in Buttons : mousedown(p, FALSE, button)]_vars
    /\ [][(~isDragging /\ camera' # camera /\ ~isFlying')
              => ~(\E p \in MousePoints : mousemove(p))]_vars
    /\ [][(touchend(<<>>) /\ ~isFlying /\ solsystemContainer)
              => (isTouchDragging' = FALSE /\ lastPinchDistance' = 0)]_vars
    /\ []((touchCount = 0 /\ ~isFlying) => (~isTouchDragging /\ lastPinchDistance = 0))
    /\ [][\A cfg \in TouchConfigs :
              (touchmove(cfg) /\ camera' # camera)
                  => (isTouchDragging \/ lastPinchDistance # 0)]_vars

\* a mouse drag, a touch drag and a pinch have all been released: nothing is
\* held, the bookkeeping is clear and the camera is where they left it
C24_Witness ==
    /\ solsystemContainer /\ ~isFlying /\ href = ""
    /\ touchCount = 0 /\ ~isTouchDragging /\ lastPinchDistance = 0 /\ ~isDragging
    /\ lastX = 1500 /\ lastTouchX = 500
    /\ camera.scale = MAX_SCALE /\ camera.x # camera0.x

----------------------------------------------------------------------------
(* The flight.                                                              *)

\* C25: while isFlying is true the input-session bookkeeping (isDragging,
\* lastX, lastY, isTouchDragging, lastTouchX, lastTouchY, lastPinchDistance)
\* is left unchanged by every input event, mouseup and touchend included.
C25_FlyingFreezesBookkeeping ==
    [][isFlying => UNCHANGED <<mouseVars, touchVars>>]_vars

Pending == { i \in 1..Len(timers) : ~timers[i].fired }
ValidClicks == { c \in Clicks : c[1] \in Markers /\ DataName(c[1]) # "" }

\* C26: a click on a marker with a non-empty identifier, while isFlying is
\* false and both elements are present, starts the flight within the click
\* handler, whatever the input session (idle, mouse-dragging, touch-dragging,
\* pinching): on return isFlying is true, the scale is FLY_IN_SCALE and
\* exactly one navigation timer is pending.  No timer exists before a flight
\* and exactly one during it.
C26_ClickStartsFlight ==
    /\ [][\A c \in ValidClicks :
              (click(c[1], c[2]) /\ ~isFlying /\ solsystemContainer)
                  => /\ isFlying'
                     /\ camera'.scale = FLY_IN_SCALE
                     /\ Cardinality(Pending') = 1
                     /\ UNCHANGED <<mouseVars, touchVars>>]_vars
    /\ [](~isFlying => timers = <<>>)
    /\ [](isFlying => (camera.scale = FLY_IN_SCALE /\ Len(timers) = 1))

\* a flight that started during a pinch with a mouse button held: the
\* bookkeeping of both sessions is still there and the timer is pending
C26_Witness ==
    /\ isFlying /\ camera.scale = FLY_IN_SCALE /\ Pending = {1}
    /\ isDragging /\ ~isTouchDragging /\ lastPinchDistance = 2000
    /\ isTarget = {"mars"}

\* the offset the claim gives for one axis: screen the marker's centre, base
\* the container's centre, offset and s the camera before the click
focusOffset(screen, base, offset, origin, s) ==
    Neg(Plus(Times(FLY_IN_SCALE,
                   Over(Minus(Minus(Minus(screen, base), offset), origin), s)),
             origin))

\* C27: focus computes its result from the camera in effect at the click:
\* with (x, y, s) the offsets and scale before the click,
\*   newOffsetX = -(FLY_IN_SCALE * ((screenX - baseX - x - originX) / s) + originX)
\*   newOffsetY = -(FLY_IN_SCALE * ((screenY - baseY - y - originY) / s) + originY)
\*                - FLY_IN_VERTICAL_OFFSET
\* dividing by s, never by FLY_IN_SCALE, with x, y, s read before any of
\* them is overwritten.
C27_FocusFromClickCamera ==
    [][\A target \in {"earth", "mars"}, rect \in FocusRects :
           (click(target, rect) /\ ~isFlying)
               => LET screenX == Plus(Num(rect.left), Over(Num(rect.width), Num(2)))
                      screenY == Plus(Num(rect.top), Over(Num(rect.height), Num(2)))
                  IN  /\ camera'.x = focusOffset(screenX, BaseX, camera.x, Num(1500),
                                                 camera.scale)
                      /\ camera'.y = Minus(focusOffset(screenY, BaseY, camera.y, Num(1500),
                                                       camera.scale),
                                           Num(120))
                      /\ camera'.scale = Num(10)]_vars

\* the flight from offsets (250, -1500) at scale 3/2 to the marker centred
\* at (400, 300): the new offsets are 30500/3 and -1620
C27_Witness ==
    /\ isFlying /\ Len(timers) = 1
    /\ timers[1].currentScale = Norm(3, 2)
    /\ timers[1].planetScreenX = Num(400) /\ timers[1].planetScreenY = Num(300)
    /\ camera = [x |-> Norm(30500, 3), y |-> Num(-1620), scale |-> Num(10)]

\* every write b in the log has a write a earlier in the log, and there is one
Before(a, b) ==
    /\ \E j \in 1..Len(effects) : effects[j] = b
    /\ \A j \in 1..Len(effects) :
           effects[j] = b => \E i \in 1..(j - 1) : effects[i] = a

\* C28: inside one focus the 'is-target' class of the clicked marker and the
\* 'is-flying' class of world and container are added, and isFlying is set,
\* before the world transform changes; the transition is set before the new
\* transform is written; and the navigation callback runs only after the
\* new transform has been written.  Before a flight nothing of this is
\* written, and during it the classes, the transition and the transform of
\* the flight camera are all in place.
C28_FocusOrdering ==
    /\ ~isFlying => effects = <<>>
    /\ isFlying =>
           /\ Before("is-target", "transform")
           /\ Before("world.is-flying", "transform")
           /\ Before("container.is-flying", "transform")
           /\ Before("isFlying", "transform")
           /\ Before("transition", "transform")
           /\ isTarget # {} /\ worldIsFlying /\ containerIsFlying
           /\ transition # "" /\ transform = Encoded
    /\ href # "" => (Before("transform", "location.href") /\ isFlying)

\* the navigation has been made after a complete focus
C28_Witness ==
    /\ href = "planet-pages/planet.html?planet=earth"
    /\ effects = FocusEffects \o <<"location.href">>
    /\ worldIsFlying /\ containerIsFlying /\ isTarget = {"earth"}
    /\ transform = Encoded

\* C29: division by zero in focus is unreachable: MIN_SCALE is above zero,
\* in every state in which focus can read the scale (isFlying false) the
\* scale is at least MIN_SCALE, and the scale every focus has divided by was
\* at least MIN_SCALE.
C29_NoDivisionByZero ==
    /\ Less(Num(0), MIN_SCALE)
    /\ ~isFlying => (LessEq(MIN_SCALE, camera.scale) /\ camera.scale[1] > 0)
    /\ \A i \in 1..Len(timers) :
           /\ LessEq(MIN_SCALE, timers[i].currentScale)
           /\ timers[i].currentScale[1] > 0

\* a focus that divided by the smallest scale there is
C29_Witness ==
    /\ isFlying /\ Len(timers) = 1 /\ timers[1].currentScale = MIN_SCALE
    /\ timers[1].planetName = "mars"

----------------------------------------------------------------------------
(* Frame conditions.                                                        *)

\* C30: a wheel event and a two-contact touchmove change only the scale and
\* leave offsetX and offsetY unchanged; a mousemove and a one-contact
\* touchmove change only the offsets and leave the scale unchanged;
\* mousedown, mouseup, touchstart and touchend change neither.
C30_PanZoomFrames ==
    [][/\ \A deltaY \in WheelDeltas :
              wheel(deltaY) => (camera'.x = camera.x /\ camera'.y = camera.y)
       /\ \A cfg \in PinchPairs :
              touchmove(cfg) => (camera'.x = camera.x /\ camera'.y = camera.y)
       /\ \A p \in MousePoints : mousemove(p) => camera'.scale = camera.scale
       /\ \A p \in TouchPoints : touchmove(<<p>>) => camera'.scale = camera.scale
       /\ (\E p \in MousePoints, onPlanet \in BOOLEAN, button \in Buttons :
               mousedown(p, onPlanet, button)) => camera' = camera
       /\ mouseup => camera' = camera
       \* touchstart and touchend are the steps that change the number of contacts
       /\ touchCount' # touchCount => camera' = camera]_vars

\* the map has been dragged to offsets (0, 0) with the mouse and pinched to
\* the upper bound, the pinch still held
C30_Witness ==
    /\ ~isFlying /\ href = ""
    /\ camera = [x |-> Num(0), y |-> Num(0), scale |-> MAX_SCALE]
    /\ lastX = 1500 /\ touchCount = 2 /\ lastPinchDistance = 2000

----------------------------------------------------------------------------
(* Touch sessions.                                                          *)

\* C31: exactly one touch input session is active at a time: in no reachable
\* state is isTouchDragging true while two contacts are down with a non-zero
\* lastPinchDistance.
C31_OneTouchSession ==
    ~(isTouchDragging /\ touchCount = 2 /\ lastPinchDistance # 0)

\* C32: every zoom delta a two-contact touchmove applies is computed against
\* a reference distance recorded since the contact count last changed: a
\* step that brings the count to two from another count leaves either no
\* reference (lastPinchDistance = 0, so the next move only records) or the
\* reference a two-contact touchstart has just recorded.
C32_FreshPinchReference ==
    [][(touchCount' = 2 /\ touchCount # 2 /\ ~isFlying /\ solsystemContainer)
           => \/ lastPinchDistance' = 0
              \/ \E cfg \in PinchPairs :
                     /\ touchstart(cfg, FALSE)
                     /\ lastPinchDistance' = getTouchDistance(cfg[1], cfg[2])]_vars

\* C33: a mouse drag and a touch drag keep separate reference points.  While
\* both drags are active and the controller is not flying, a mousemove to p
\* moves the offsets by p minus the mouse's last point and leaves the touch
\* reference alone, a one-contact touchmove to p moves them by p minus the
\* touch's last point and leaves the mouse reference alone; so after every
\* interleaving the offset is the initial offset plus the displacement of
\* the mouse (pressed at the origin, now at <<lastX, lastY>>) plus the
\* displacement of the finger (put down at the origin, now at
\* <<lastTouchX, lastTouchY>>).
C33_SeparateDragReferences ==
    /\ [](/\ camera.x = Plus(camera0.x, Num(lastX + lastTouchX))
          /\ camera.y = Plus(camera0.y, Num(lastY + lastTouchY))
          /\ camera.scale = camera0.scale)
    /\ [][/\ \A p \in DragMousePoints :
                 mousemove(p) =>
                     /\ camera'.x = Plus(camera.x, Num(p[1] - lastX))
                     /\ camera'.y = Plus(camera.y, Num(p[2] - lastY))
                     /\ lastX' = p[1] /\ lastY' = p[2]
                     /\ UNCHANGED <<lastTouchX, lastTouchY>>
          /\ \A p \in DragTouchPoints :
                 touchmove(<<p>>) =>
                     /\ camera'.x = Plus(camera.x, Num(p[1] - lastTouchX))
                     /\ camera'.y = Plus(camera.y, Num(p[2] - lastTouchY))
                     /\ lastTouchX' = p[1] /\ lastTouchY' = p[2]
                     /\ UNCHANGED <<lastX, lastY>>]_vars

\* both pointers have moved away from where they went down
C33_Witness ==
    /\ isDragging /\ isTouchDragging /\ ~isFlying
    /\ lastX = 200 /\ lastY = 30 /\ lastTouchX = 800 /\ lastTouchY = 100
    /\ camera.x = Num(-500) /\ camera.y = Num(-1370)

----------------------------------------------------------------------------
(* The page's life cycle.                                                   *)

\* C34: every pageshow event with persisted = true reloads the page, so that
\* a page restored from the back/forward cache after a fly-in does not stay
\* displayed with isFlying true and input disabled: once the event has been
\* handled, a displayed page that is flying still has its navigation timer
\* pending.  A pageshow event with persisted = false reloads nothing: it
\* changes no state of the page.
C34_PersistedPageReloads ==
    /\ []((href = "" /\ pageshowEvent = <<>> /\ isFlying) => Pending # {})
    /\ [][(handlePageShow /\ pageshowEvent = <<TRUE>>) =>
              /\ camera' = camera0 /\ ~isFlying'
              /\ ~worldIsFlying' /\ ~containerIsFlying' /\ isTarget' = {}
              /\ timers' = <<>> /\ href' = ""
              /\ effects' = <<"location.reload">>]_vars
    /\ [][(handlePageShow /\ pageshowEvent = <<FALSE>>) =>
              /\ pageshowEvent' = <<>>
              /\ UNCHANGED <<elemVars, effects, camera, isFlying, mouseVars, touchVars,
                             touchCount, domVars, navVars>>]_vars

\* the page has been reloaded after a fly-in, zoomed, and has handled the
\* pageshow event of the new document
C34_Witness ==
    /\ effects = <<"location.reload">>
    /\ pageshowEvent = <<>>
    /\ href = "" /\ ~isFlying /\ camera.scale # camera0.scale

----------------------------------------------------------------------------
(* Favourites.                                                              *)

ids(favorites) == { favorites[i].id : i \in 1..Len(favorites) }

\* the entries of a list other than those with the given id, in order
others(favorites, id) ==
    LET Other(favorite) == favorite.id # id
    IN  SelectSeq(favorites, Other)

\* C35: toggleFavoriteByKey(key, item) flips the membership of item.id in
\* the list stored under key and returns true exactly when the item was added
\* and false exactly when it was removed; right after the call
\* isFavoriteByKey(key, item.id) equals the returned value, every other entry
\* of the list and every other key is unchanged; and toggling the same item
\* twice (or two items with the same id) restores the original set of stored
\* ids.
C35_ToggleFlipsMembership ==
    /\ [][\A storageKey \in FavoriteKeys, item \in Items :
              toggleFavoriteByKey(storageKey, item) =>
                  LET before == loadFavoritesByKey(storageKey)
                      after  == loadFavorites(localStorage', storageKey)
                      was    == item.id \in ids(before)
                  IN  /\ returned' = <<~was>>
                      /\ ids(after) = IF was THEN ids(before) \ {item.id}
                                             ELSE ids(before) \cup {item.id}
                      /\ was => Len(after) = Len(before) - 1
                      /\ ~was => after = Append(before, item)
                      /\ isFavorite(localStorage', storageKey, item.id) = returned'[1]
                      /\ others(after, item.id) = others(before, item.id)
                      /\ \A k \in StorageKeys \ {storageKey} :
                             localStorage'[k] = localStorage[k]]_vars
    /\ [](\A storageKey \in FavoriteKeys, item \in Items, again \in Items :
              again.id = item.id =>
                  LET once  == toggleFavorite(localStorage, storageKey, item)
                      twice == toggleFavorite(once.storage, storageKey, again)
                  IN  /\ ids(loadFavorites(twice.storage, storageKey))
                             = ids(loadFavoritesByKey(storageKey))
                      /\ twice.returns = ~once.returns)

\* an item has just been removed from a list of two, next to a list of two
\* under the other key
C35_Witness ==
    /\ returned = <<FALSE>>
    /\ Len(loadFavoritesByKey(APOD_FAVORITES_KEY)) = 1
    /\ Len(loadFavoritesByKey(RESOURCE_FAVORITES_KEY)) = 2
    /\ isFavoriteByKey(APOD_FAVORITES_KEY, "apod-2")
    /\ ~isFavoriteByKey(APOD_FAVORITES_KEY, "apod-1")

\* C38: a favourite toggle button created without an onToggle callback
\* toggles its displayed state on every click: after an even number of clicks
\* it shows its initial state, after an odd number the other one.
C38_BareToggleAlternates ==
    (favoriteButton # <<>> /\ favoriteButton[1].onToggle = <<>>) =>
        (favoriteButton[1].isFavorited = favoriteButton[1].initialState)
            = (favoriteButton[1].clicks % 2 = 0)

----------------------------------------------------------------------------
(* The planet cache.                                                        *)

\* the stored cache object has its own entry under the key
cached(storage, key) == getCached(storage) # <<>> /\ hasOwn(getCached(storage)[1], key)

\* C36: getPlanetData(query) with a non-empty string query.  If the cache
\* holds an entry under the lower-cased name, the call returns that entry
\* without fetching and without writing.  Otherwise, once its fetch has
\* resolved, the stored cache holds the fetched value under the lower-cased
\* name, and every entry the cache held when the call read it is still
\* present, the other names with the values they had.  If the fetch is
\* rejected, the stored cache is unchanged.
C36_CacheReadThrough ==
    /\ [][\A query \in Queries \ {""} :
              getPlanetData(query) =>
                  LET call == calls'[Len(calls')]
                  IN  /\ localStorage' = localStorage
                      /\ call.normalized = toLowerCase(query)
                      /\ cached(localStorage, call.normalized) =>
                             /\ call.pc = "returned" /\ ~call.fetches
                             /\ call.result = getProperty(getCachedNinjaPlanets,
                                                          call.normalized)
                             /\ call.result[1].name = call.normalized]_vars
    /\ [][\A i \in 1..Len(calls) : \A fetched \in Responses(calls[i].query) :
              (fetchResolved(i, fetched) /\ calls[i].normalized # "") =>
                  LET after == getCached(localStorage')
                  IN  /\ cached(localStorage', calls[i].normalized)
                      /\ getProperty(after, calls[i].normalized) = <<fetched>>
                      /\ calls'[i].result = <<fetched>>
                      /\ calls[i].cache # <<>> =>
                             \A j \in 1..Len(calls[i].cache[1]) :
                                 LET entry == calls[i].cache[1][j]
                                 IN  /\ hasOwn(after[1], entry.key)
                                     /\ entry.key # calls[i].normalized =>
                                            getProperty(after, entry.key) = <<entry.value>>]_vars
    /\ [][\A i \in 1..Len(calls) : fetchRejected(i) => localStorage' = localStorage]_vars

\* with earth and mars cached, a call for "Earth" has returned the entry of
\* "earth" without fetching
C36_Witness ==
    /\ cached(localStorage, "earth") /\ cached(localStorage, "mars")
    /\ \E i \in 1..Len(calls) :
           /\ calls[i].query = "Earth"
           /\ calls[i].pc = "returned" /\ ~calls[i].fetches
           /\ calls[i].result = getProperty(getCachedNinjaPlanets, "earth")

\* C37: once overlapping getPlanetData calls for distinct planets have all
\* resolved successfully, the stored cache has an entry for every one of
\* them: no call's write discards what another call wrote.
C37_NoLostCacheWrite ==
    (/\ Len(calls) >= 2
     /\ \A i \in 1..Len(calls) :
            calls[i].pc = "returned" /\ calls[i].fetches /\ calls[i].normalized # ""
     /\ \A i, j \in 1..Len(calls) : i # j => calls[i].normalized # calls[j].normalized)
        => \A i \in 1..Len(calls) : cached(localStorage, calls[i].normalized)

====
